---- MODULE Spec2Model ----
(***************************************************************************)
(* go-ipp-file-print: a watched directory used as a print queue.           *)
(* Files dropped under <root>/upload are submitted to an IPP printer by    *)
(* IppPrinterManager.Print and renamed into <root>/printed or              *)
(* <root>/failed.  The four builds of the program found in the repository  *)
(* (main.go and three earlier revisions) are modelled as `variant`.        *)
(*                                                                         *)
(* A path is a sequence of segments, a segment a sequence of string        *)
(* tokens: "files/upload/a.pdf" is << <<"files">>, <<"upload">>,           *)
(* <<"a", ".pdf">> >>.  strings.Replace on "/upload/" is modelled on this  *)
(* representation, token by token.                                         *)
(***************************************************************************)
EXTENDS Integers, Sequences, FiniteSets

\* ---------------------------------------------------------------- bounds
MaxFiles == 2
MaxLiveFiles == 1
MaxDay == 2
MaxJobId == 2
MaxPages == 1
MaxNotifiers == 2
MaxBoots == 2

\* ------------------------------------------------------------- constants
Variants == {"main", "part_000", "part_001", "part_002"}

Poller == 0

Notifiers == 1..MaxNotifiers

Procs == {Poller} \cup Notifiers

NoOwner == -1

JobIds == 1..MaxJobId

AllowList == {".pdf", ".png", ".jpg", ".jpeg", ".pwg", ".pcl"}

rootFolder == << <<"files">> >>

uploadPath == rootFolder \o << <<"upload">> >>

printedPath == rootFolder \o << <<"printed">> >>

failedPath == rootFolder \o << <<"failed">> >>

\* names a user may give a dropped file, and the one sub-directory of upload
FileNames == { <<"a", ".pdf">>, <<"b", ".txt">>, <<"c", ".PNG">> }

DropDirs == { uploadPath, uploadPath \o << <<"sub">> >> }

\* directory entries in the lexical order filepath.Walk visits them
SegOrder == << <<"a", ".pdf">>, <<"b", ".txt">>, <<"c", ".PNG">>, <<"sub">> >>

\* ------------------------------------------------------------- variables
VARIABLES variant, fs, dirs, today, cancelled, nextId, origin, submitted,
          mu, pc, call, wpc, todo, nst, key, joined, obs,
          boots, defaultJobAttrs, pass

vars == <<variant, fs, dirs, today, cancelled, nextId, origin, submitted,
          mu, pc, call, wpc, todo, nst, key, joined, obs,
                 boots, defaultJobAttrs, pass>>

\* ------------------------------------------------------- pure functions
Last(s) == s[Len(s)]

Parent(q) == SubSeq(q, 1, Len(q) - 1)

\* time.Now().Format("2006-01-02") for the model's day counter
DateStr(d) == <<"2024-03-01", "2024-03-02", "2024-03-03", "2024-03-04", "2024-03-05">>[d]

\* fmt "%d" of a job id
IntStr(j) == <<"1", "2", "3", "4", "5">>[j]

\* the (?i) flag of the extension regexps
Lower(t) == CASE t = ".PDF" -> ".pdf" [] t = ".PNG" -> ".png" [] t = ".TXT" -> ".txt" [] OTHER -> t

Ext(q) == Last(Last(q))

\* an allow-list that lets text files through
AcceptsMutant(q) == Lower(Ext(q)) \in AllowList \cup {".txt"}

Accepts(q) == Lower(Ext(q)) \in AllowList

IsPdf(q) == Lower(Ext(q)) = ".pdf"

\* strings.Replace(file, "/upload/", "/" + segs + "/" + prefix, 1): the first
\* "upload" segment with a separator on both sides is replaced by the
\* segments segs, and prefix is glued to the front of the segment after it
ReplaceUpload(q, segs, prefix) ==
  LET hits == {i \in 2..(Len(q) - 1) : q[i] = <<"upload">>}
  IN IF hits = {} THEN q
     ELSE LET i == CHOOSE h \in hits : \A g \in hits : h <= g
          IN SubSeq(q, 1, i - 1) \o segs \o << prefix \o q[i + 1] >> \o SubSeq(q, i + 2, Len(q))

\* a destination built from a job id variable that was never assigned
PrintedDestMutant(q, d, j) ==
  ReplaceUpload(q, << <<"printed">> >>, <<DateStr(d), "_", "0", "_">>)

PrintedDest(q, d, j) ==
  ReplaceUpload(q, << <<"printed">> >>, <<DateStr(d), "_", IntStr(j), "_">>)

FailedDest(v, q, d) ==
  IF v \in {"part_000", "part_002"}
  THEN ReplaceUpload(q, << <<"failed">>, <<DateStr(d)>> >>, <<>>)
  ELSE ReplaceUpload(q, << <<"failed">> >>, <<DateStr(d), "_">>)

\* strings.Replace(file, filepath.Ext(file), ".pdf", 1): the first occurrence
\* of the extension anywhere in the path becomes ".pdf"
ReplaceExt(q) ==
  LET e == Ext(q)
      hits == {ij \in {<<i, j>> : i \in 1..Len(q), j \in 1..3} :
                 ij[2] <= Len(q[ij[1]]) /\ q[ij[1]][ij[2]] = e}
      first == CHOOSE h \in hits : \A g \in hits :
                 h[1] < g[1] \/ (h[1] = g[1] /\ h[2] <= g[2])
  IN [i \in 1..Len(q) |->
        IF i = first[1]
        THEN [j \in 1..Len(q[i]) |-> IF j = first[2] THEN ".pdf" ELSE q[i][j]]
        ELSE q[i]]

\* the path printPdf is given
PdfTarget(q) == IF IsPdf(q) THEN q ELSE ReplaceExt(q)

\* PdfReader.GetPage(k) succeeds for the pages the document has
GetPageOk(numPages, k) == k >= 1 /\ k <= numPages

\* page numbers the copy loop of printPdf asks for
PagesLoop(numPages) == 1..(numPages + 1)

\* error printPdf returns before it reaches client.PrintJob, "nil" if none
printPdf(openOk, numPages) ==
  IF ~openOk THEN "ErrOpen"
  ELSE IF ~GetPageOk(numPages, 1) THEN "ErrPage"
  ELSE IF \E k \in PagesLoop(numPages) : ~GetPageOk(numPages, k) THEN "ErrPage"
  ELSE "nil"

\* ------------------------------------------------------------ filesystem
Put(f, q, c) == [x \in DOMAIN f \cup {q} |-> IF x = q THEN c ELSE f[x]]

Del(f, q) == [x \in DOMAIN f \ {q} |-> f[x]]

Exists(q) == q \in DOMAIN fs

\* os.Rename succeeds when the source exists and the target's directory does
RenamePossible(old, new) ==
  Exists(old) /\ Parent(new) \in dirs /\ new \notin dirs

\* a copy in place of a rename: the source stays
RenameMutant(f, old, new) == Put(f, new, f[old])

\* os.Rename replaces an existing target
Rename(f, old, new) == IF old = new THEN f ELSE Put(Del(f, old), new, f[old])

Under(q, dir) == Len(q) > Len(dir) /\ SubSeq(q, 1, Len(dir)) = dir

\* the elements of a sequence
Range(sq) == {sq[k] : k \in 1..Len(sq)}

\* the entries of directory q, in the order Walk visits them
Children(q) ==
  LET F[i \in 0..Len(SegOrder)] ==
        IF i = 0 THEN <<>>
        ELSE IF (q \o <<SegOrder[i]>>) \in dirs \cup DOMAIN fs
             THEN F[i - 1] \o << q \o <<SegOrder[i]>> >>
             ELSE F[i - 1]
  IN F[Len(SegOrder)]

\* ------------------------------------------------------------------ Init
\* PRINTER_JOB_ATTRS of the default configuration: the empty mapping "{}"
NoAttrs == [k \in {} |-> <<>>]

\* the locals of one Print call and what it has done so far: attempts counts
\* entries into the submission stage, sub is the outcome of the submitter
\* call (printPdf, PrintFile or PrintDocuments), proto and renames count the
\* protocol-client calls and the os.Rename calls, day is the date of the rename,
\* opened is the path the submission opened, pages the page count it read
\* there (-1 when it read none), attrs the job attributes given to the client
NoCall == [file |-> <<>>, id |-> 0, sub |-> "none", err |-> "nil", jId |-> 0,
           proto |-> 0, renames |-> 0, attempts |-> 0, dest |-> <<>>, day |-> 0,
           moved |-> FALSE, fault |-> FALSE,
           opened |-> <<>>, pages |-> -1, attrs |-> NoAttrs]

NewCall(q) == [NoCall EXCEPT !.file = q]

\* what one pass of PrintAll has seen: the regular files its directory
\* listings returned, the paths it has called Print for, and the positions
\* among them of the calls that returned an error
NoPass == [listed |-> {}, visited |-> <<>>, errs |-> {}]

\* an os.Mkdir in place of os.MkdirAll: an existing directory is an error
MkdirAllMutant(ds, path) ==
  IF path \in ds THEN [err |-> "ErrExist", dirs |-> ds]
  ELSE [err |-> "nil", dirs |-> ds \cup {path}]

\* os.MkdirAll: creates the directory and its missing parents; a regular
\* file on the way is an error, an existing directory is not
MkdirAll(ds, path) ==
  LET prefixes == {SubSeq(path, 1, k) : k \in 1..Len(path)}
      blocked == {x \in prefixes : x \in DOMAIN fs}
  IN IF blocked = {} THEN [err |-> "nil", dirs |-> ds \cup prefixes]
     ELSE [err |-> "ErrNotDir",
           dirs |-> ds \cup {x \in prefixes : \A b \in blocked : Len(x) < Len(b)}]

\* the three MkdirAll calls of NewIppPrinterManager on the layout ds; the
\* first error ends the constructor
Bootstrap(ds) ==
  LET u == MkdirAll(ds, uploadPath)
      r == MkdirAll(u.dirs, printedPath)
      f == MkdirAll(r.dirs, failedPath)
  IN IF u.err # "nil" THEN u
     ELSE IF r.err # "nil" THEN r
     ELSE f

\* NewIppPrinterManager: the three directories exist, the mutex is free
NewIppPrinterManager ==
  /\ dirs = {rootFolder, uploadPath, printedPath, failedPath}
  /\ mu = NoOwner

InitCommon ==
  /\ variant \in Variants
  /\ NewIppPrinterManager
  /\ fs = [x \in {} |-> 0]
  /\ today = 1
  /\ cancelled = FALSE
  /\ nextId = 1
  /\ origin = << >>
  /\ submitted = {}
  /\ pc = [p \in Procs |-> "idle"]
  /\ call = [p \in Procs |-> NoCall]
  /\ todo = << >>
  /\ nst = [n \in Notifiers |-> "idle"]
  /\ key = [n \in Notifiers |-> <<>>]
  /\ joined = [n \in Notifiers |-> 0]
  /\ obs = [n \in Notifiers |-> "none"]
  /\ boots = 1
  /\ pass = NoPass

\* the process as main starts it with the default configuration
Init ==
  /\ InitCommon
  /\ defaultJobAttrs = NoAttrs
  /\ wpc = "select"

\* ------------------------------------------------ IppPrinterManager.Print
\* a Lock that does not wait
CanLockMutant(p) == TRUE

\* i.mu.Lock() blocks until the mutex is free
CanLock(p) == mu = NoOwner

Lock(p) ==
  /\ pc[p] = "lock"
  /\ CanLock(p)
  /\ mu' = p
  /\ pc' = [pc EXCEPT ![p] = "filter"]
  /\ UNCHANGED <<variant, fs, dirs, today, cancelled, nextId, origin, submitted,
                 call, wpc, todo, nst, key, joined, obs,
                 boots, defaultJobAttrs, pass>>

\* the allow-list regexp: a rejected path returns nil at once
Filter(p) ==
  /\ pc[p] = "filter"
  /\ pc' = [pc EXCEPT ![p] = IF Accepts(call[p].file) THEN "submit" ELSE "ret"]
  /\ UNCHANGED <<variant, fs, dirs, today, cancelled, nextId, origin, submitted,
                 mu, call, wpc, todo, nst, key, joined, obs,
                 boots, defaultJobAttrs, pass>>

\* what the build does with an accepted path before the protocol client is
\* called: "nil" when the client call is reached, else the local error
LocalErr(v, q, openOk, numPages) ==
  IF v = "main" THEN printPdf(Exists(PdfTarget(q)) /\ openOk, numPages)
  ELSE IF Exists(q) /\ openOk THEN "nil" ELSE "ErrOpen"

\* the path the build opens for the accepted path q
OpenedPath(v, q) == IF v = "main" THEN PdfTarget(q) ELSE q

\* path.Base
Base(q) == Last(q)

\* maps.Copy(dst, src): the keys of src overwrite those of dst
MapsCopy(dst, src) ==
  [k \in DOMAIN dst \cup DOMAIN src |-> IF k \in DOMAIN src THEN src[k] ELSE dst[k]]

\* the job attributes the build hands to the protocol client for path q
JobAttrs(v, q) ==
  IF v = "part_000" THEN NoAttrs
  ELSE IF v = "part_001"
  THEN MapsCopy([k \in {"job-name"} |-> Base(q)], defaultJobAttrs)
  ELSE defaultJobAttrs

\* part_001 stats and opens the file itself, before it calls the client, and
\* returns that error without resolving the file
SkipsResolve(v, e) == v = "part_001" /\ e = "ErrOpen"

\* the submission begins: the file is opened (and, in main.go, copied page by
\* page); the protocol client is called when that succeeded
SubmitStart(p) ==
  /\ pc[p] = "submit"
  /\ \E openOk \in BOOLEAN, numPages \in 0..MaxPages :
       LET q == call[p].file
           e == LocalErr(variant, q, openOk, numPages)
           readable == Exists(OpenedPath(variant, q)) /\ openOk
           c == [call[p] EXCEPT !.attempts = @ + 1,
                                !.id = IF Exists(q) THEN fs[q] ELSE 0,
                                !.opened = OpenedPath(variant, q),
                                !.pages = IF variant = "main" /\ readable
                                          THEN numPages ELSE -1]
       IN /\ submitted' = IF Exists(q) THEN submitted \cup {fs[q]} ELSE submitted
          /\ IF e = "nil"
             THEN /\ call' = [call EXCEPT ![p] =
                                [c EXCEPT !.proto = @ + 1,
                                          !.attrs = JobAttrs(variant, q)]]
                  /\ pc' = [pc EXCEPT ![p] = "wire"]
             ELSE IF SkipsResolve(variant, e)
             THEN /\ call' = [call EXCEPT ![p] = [c EXCEPT !.err = e]]
                  /\ pc' = [pc EXCEPT ![p] = "ret"]
             ELSE /\ call' = [call EXCEPT ![p] = [c EXCEPT !.err = e, !.sub = "err"]]
                  /\ pc' = [pc EXCEPT ![p] = "resolve"]
  /\ UNCHANGED <<variant, fs, dirs, today, cancelled, nextId, origin,
                 mu, wpc, todo, nst, key, joined, obs,
                 boots, defaultJobAttrs, pass>>

\* the protocol client returns a job id or an error
SubmitReturn(p) ==
  /\ pc[p] = "wire"
  /\ \/ \E j \in JobIds :
          call' = [call EXCEPT ![p] = [@ EXCEPT !.sub = "ok", !.jId = j]]
     \/ call' = [call EXCEPT ![p] = [@ EXCEPT !.sub = "err", !.err = "ErrIpp"]]
  /\ pc' = [pc EXCEPT ![p] = "resolve"]
  /\ UNCHANGED <<variant, fs, dirs, today, cancelled, nextId, origin, submitted,
                 mu, wpc, todo, nst, key, joined, obs,
                 boots, defaultJobAttrs, pass>>

\* a Print that reports the rename's failure instead
ErrAfterFailedMoveMutant(subErr, moved) == IF moved THEN subErr ELSE "ErrRename"

\* the error Print returns after the rename of a failed submission
ErrAfterFailedMove(subErr, moved) == subErr

\* a Print that drops the error of the rename into printed/
ErrAfterPrintedMoveMutant(moved) == "nil"

\* the error Print returns after the rename of a successful submission
ErrAfterPrintedMove(moved) == IF moved THEN "nil" ELSE "ErrRename"

\* the rename that resolves the attempt; fault is a rename the system refuses
\* (permissions, cross-device) although source and target directory exist
Resolve(p) ==
  /\ pc[p] = "resolve"
  /\ \E fault \in BOOLEAN :
       LET q == call[p].file
           failed == call[p].err # "nil"
           new == IF failed THEN FailedDest(variant, q, today)
                  ELSE PrintedDest(q, today, call[p].jId)
           ok == RenamePossible(q, new) /\ ~fault
       IN /\ fs' = IF ok THEN Rename(fs, q, new) ELSE fs
          /\ call' = [call EXCEPT ![p] =
                        [@ EXCEPT !.renames = @ + 1, !.dest = new, !.moved = ok,
                                  !.day = today,
                                  !.fault = fault,
                                  !.err = IF failed THEN ErrAfterFailedMove(call[p].err, ok)
                                          ELSE ErrAfterPrintedMove(ok)]]
  /\ pc' = [pc EXCEPT ![p] = "ret"]
  /\ UNCHANGED <<variant, dirs, today, cancelled, nextId, origin, submitted,
                 mu, wpc, todo, nst, key, joined, obs,
                 boots, defaultJobAttrs, pass>>

\* an Unlock written on the successful path only
ReturnMutant(p) ==
  /\ pc[p] = "ret"
  /\ mu' = IF mu = p /\ call[p].err = "nil" THEN NoOwner ELSE mu
  /\ pc' = [pc EXCEPT ![p] = "back"]
  /\ UNCHANGED <<variant, fs, dirs, today, cancelled, nextId, origin, submitted,
                 call, wpc, todo, nst, key, joined, obs,
                 boots, defaultJobAttrs, pass>>

\* defer i.mu.Unlock(): Print has returned to its caller
Return(p) ==
  /\ pc[p] = "ret"
  /\ mu' = IF mu = p THEN NoOwner ELSE mu
  /\ pc' = [pc EXCEPT ![p] = "back"]
  /\ UNCHANGED <<variant, fs, dirs, today, cancelled, nextId, origin, submitted,
                 call, wpc, todo, nst, key, joined, obs,
                 boots, defaultJobAttrs, pass>>

PrintStep(p) ==
  \/ Lock(p)
  \/ Filter(p)
  \/ SubmitStart(p)
  \/ SubmitReturn(p)
  \/ Resolve(p)
  \/ Return(p)

\* ------------------------------------------------------------ environment
\* a user copies a new file into upload/ (or a sub-directory of it)
DropFile ==
  /\ \E d \in DropDirs, nm \in FileNames :
       LET q == d \o <<nm>>
       IN /\ ~Exists(q)
          /\ fs' = Put(fs, q, nextId)
          /\ dirs' = dirs \cup {d}
          /\ origin' = Append(origin, q)
  /\ nextId' = nextId + 1
  /\ UNCHANGED <<variant, today, cancelled, submitted, mu, pc, call, wpc, todo,
                 nst, key, joined, obs,
                 boots, defaultJobAttrs, pass>>

Drop ==
  /\ nextId <= MaxFiles
  /\ DropFile

\* midnight passes
Tick ==
  /\ today < MaxDay
  /\ today' = today + 1
  /\ UNCHANGED <<variant, fs, dirs, cancelled, nextId, origin, submitted,
                 mu, pc, call, wpc, todo, nst, key, joined, obs,
                 boots, defaultJobAttrs, pass>>

\* the context passed to WatchFiles is cancelled
Cancel ==
  /\ ~cancelled
  /\ cancelled' = TRUE
  /\ UNCHANGED <<variant, fs, dirs, today, nextId, origin, submitted,
                 mu, pc, call, wpc, todo, nst, key, joined, obs,
                 boots, defaultJobAttrs, pass>>

\* ------------------------------------------------- WatchFiles / PrintAll
\* a pass of PrintAll begins
NewPass == NoPass

\* the pass after Walk has read the entries of directory q
Listed(q) ==
  [pass EXCEPT !.listed = @ \cup {c \in Range(Children(q)) : c \notin dirs}]

\* the pass after the Walk callback has logged the error e of the last call
Logged(e) ==
  IF e = "nil" THEN pass ELSE [pass EXCEPT !.errs = @ \cup {Len(pass.visited)}]

\* a select that never looks at ctx.Done()
SelectMutant ==
  /\ wpc = "select"
  /\ wpc' = "walk"
  /\ todo' = <<uploadPath>>
  /\ pass' = NewPass
  /\ UNCHANGED <<variant, fs, dirs, today, cancelled, nextId, origin, submitted,
                 mu, pc, call, nst, key, joined, obs,
                 boots, defaultJobAttrs>>

\* select: ctx.Done() wins over default once the context is cancelled
Select ==
  /\ wpc = "select"
  /\ IF cancelled
     THEN wpc' = "stopped" /\ todo' = todo /\ pass' = pass
     ELSE wpc' = "walk" /\ todo' = <<uploadPath>> /\ pass' = NewPass
  /\ UNCHANGED <<variant, fs, dirs, today, cancelled, nextId, origin, submitted,
                 mu, pc, call, nst, key, joined, obs,
                 boots, defaultJobAttrs>>

\* filepath.Walk visits the next path: a directory is listed, a regular file
\* is handed to Print, a path that vanished ends the walk with its error
WalkStep ==
  /\ wpc = "walk"
  /\ pc[Poller] = "idle"
  /\ todo # <<>>
  /\ LET q == Head(todo)
     IN IF q \in dirs
        THEN /\ todo' = Children(q) \o Tail(todo)
             /\ pass' = Listed(q)
             /\ UNCHANGED <<pc, call>>
        ELSE IF Exists(q)
        THEN /\ todo' = Tail(todo)
             /\ pc' = [pc EXCEPT ![Poller] = "lock"]
             /\ call' = [call EXCEPT ![Poller] = NewCall(q)]
             /\ pass' = [pass EXCEPT !.visited = Append(@, q)]
        ELSE /\ todo' = <<>>
             /\ UNCHANGED <<pc, call, pass>>
  /\ UNCHANGED <<variant, fs, dirs, today, cancelled, nextId, origin, submitted,
                 mu, wpc, nst, key, joined, obs,
                 boots, defaultJobAttrs>>

\* a Walk callback that returns Print's error, which ends the walk
VisitDoneMutant ==
  /\ wpc = "walk"
  /\ pc[Poller] = "back"
  /\ pc' = [pc EXCEPT ![Poller] = "idle"]
  /\ call' = [call EXCEPT ![Poller] = NoCall]
  /\ pass' = Logged(call[Poller].err)
  /\ todo' = IF call[Poller].err = "nil" THEN todo ELSE <<>>
  /\ UNCHANGED <<variant, fs, dirs, today, cancelled, nextId, origin, submitted,
                 mu, wpc, nst, key, joined, obs,
                 boots, defaultJobAttrs>>

\* the Walk callback logs Print's error and returns nil
VisitDone ==
  /\ wpc = "walk"
  /\ pc[Poller] = "back"
  /\ pc' = [pc EXCEPT ![Poller] = "idle"]
  /\ call' = [call EXCEPT ![Poller] = NoCall]
  /\ pass' = Logged(call[Poller].err)
  /\ UNCHANGED <<variant, fs, dirs, today, cancelled, nextId, origin, submitted,
                 mu, wpc, todo, nst, key, joined, obs,
                 boots, defaultJobAttrs>>

\* a WatchFiles that returns after its first pass
WalkEndMutant ==
  /\ wpc = "walk"
  /\ pc[Poller] = "idle"
  /\ todo = <<>>
  /\ pass' = NoPass
  /\ wpc' = "stopped"
  /\ UNCHANGED <<variant, fs, dirs, today, cancelled, nextId, origin, submitted,
                 mu, pc, call, todo, nst, key, joined, obs,
                 boots, defaultJobAttrs>>

\* PrintAll returns; WatchFiles sleeps one second
WalkEnd ==
  /\ wpc = "walk"
  /\ pc[Poller] = "idle"
  /\ todo = <<>>
  /\ pass' = NoPass
  /\ wpc' = "sleep"
  /\ UNCHANGED <<variant, fs, dirs, today, cancelled, nextId, origin, submitted,
                 mu, pc, call, todo, nst, key, joined, obs,
                 boots, defaultJobAttrs>>

Wake ==
  /\ wpc = "sleep"
  /\ wpc' = "select"
  /\ UNCHANGED <<variant, fs, dirs, today, cancelled, nextId, origin, submitted,
                 mu, pc, call, todo, nst, key, joined, obs,
                 boots, defaultJobAttrs, pass>>

WatchFiles ==
  \/ Select
  \/ WalkStep
  \/ VisitDone
  \/ WalkEnd
  \/ Wake
  \/ PrintStep(Poller)

Next ==
  \/ Drop
  \/ Tick
  \/ Cancel
  \/ WatchFiles

Spec == Init /\ [][Next]_vars

\* ---------------------------------------------------------- EventWatcher
\* a deduplicator that never finds the attempt in flight
LeaderMutant(q) == 0

\* the notifier whose attempt for path q is in flight, 0 if there is none
Leader(q) ==
  IF \E m \in Notifiers : nst[m] = "lead" /\ key[m] = q
  THEN CHOOSE m \in Notifiers : nst[m] = "lead" /\ key[m] = q
  ELSE 0

\* a write notification for a file directly under upload/ reaches the
\* deduplicator: it joins the attempt in flight for that path, or starts one
Notify(n) ==
  /\ nst[n] = "idle"
  /\ \E q \in {uploadPath \o <<nm>> : nm \in FileNames} :
       /\ Exists(q)
       /\ key' = [key EXCEPT ![n] = q]
       /\ IF Leader(q) # 0
          THEN /\ nst' = [nst EXCEPT ![n] = "wait"]
               /\ joined' = [joined EXCEPT ![n] = Leader(q)]
               /\ UNCHANGED <<pc, call>>
          ELSE /\ nst' = [nst EXCEPT ![n] = "lead"]
               /\ joined' = [joined EXCEPT ![n] = n]
               /\ pc' = [pc EXCEPT ![n] = "lock"]
               /\ call' = [call EXCEPT ![n] = NewCall(q)]
  /\ UNCHANGED <<variant, fs, dirs, today, cancelled, nextId, origin, submitted,
                 mu, wpc, todo, obs,
                 boots, defaultJobAttrs, pass>>

\* the attempt returns: every notification that joined it gets its outcome
\* and the key is cleared
FlightDone(n) ==
  /\ nst[n] = "lead"
  /\ pc[n] = "back"
  /\ nst' = [m \in Notifiers |-> IF joined[m] = n /\ nst[m] \in {"lead", "wait"}
                                 THEN "done" ELSE nst[m]]
  /\ obs' = [m \in Notifiers |-> IF joined[m] = n /\ nst[m] \in {"lead", "wait"}
                                 THEN call[n].err ELSE obs[m]]
  /\ pc' = [pc EXCEPT ![n] = "idle"]
  /\ UNCHANGED <<variant, fs, dirs, today, cancelled, nextId, origin, submitted,
                 mu, call, wpc, todo, key, joined, boots, defaultJobAttrs, pass>>

EventWatcher ==
  \E n \in Notifiers :
    \/ Notify(n)
    \/ FlightDone(n)
    \/ PrintStep(n)

InitEvent ==
  /\ InitCommon
  /\ defaultJobAttrs = NoAttrs
  /\ wpc = "off"

NextEvent ==
  \/ Drop
  \/ Tick
  \/ EventWatcher

SpecEvent == InitEvent /\ [][NextEvent]_vars

\* ================================================================ claims
Returned(p) == pc[p] \in {"ret", "back"}

\* the paths at which file i is found
Places(i) == {q \in DOMAIN fs : fs[q] = i}

\* the extensions the specification lists, in any letter case
Printable(q) == Lower(Ext(q)) \in {".pdf", ".png", ".jpg", ".jpeg", ".pwg", ".pcl"}

\* C1: a path whose extension is not on the allow-list makes Print return nil
\* after no protocol-client call and no rename, and a file dropped under such
\* a path stays at that path and is never submitted.
C1_RejectedLeftAlone ==
  /\ \A p \in Procs :
       (Returned(p) /\ ~Printable(call[p].file)) =>
         /\ call[p].err = "nil"
         /\ call[p].proto = 0
         /\ call[p].renames = 0
         /\ call[p].attempts = 0
  /\ \A i \in 1..Len(origin) :
       ~Printable(origin[i]) =>
         /\ Exists(origin[i])
         /\ fs[origin[i]] = i
         /\ i \notin submitted

\* Print has returned for a rejected file that is still in upload/
C1_Witness ==
  /\ pc[Poller] = "back"
  /\ ~Printable(call[Poller].file)
  /\ Exists(call[Poller].file)
  /\ Under(call[Poller].file, uploadPath)

\* C2: when the submission of an accepted path succeeded and Print has
\* returned, the file is at exactly one path under printed/ and at none under
\* upload/ or failed/ (stated for the calls whose rename the system did not
\* refuse, which is the case the claim is about).
C2_SuccessEndsInPrinted ==
  \A p \in Procs :
    (pc[p] = "back" /\ call[p].sub = "ok" /\ ~call[p].fault) =>
      /\ Cardinality({q \in Places(call[p].id) : Under(q, printedPath)}) = 1
      /\ \A q \in Places(call[p].id) :
           ~Under(q, uploadPath) /\ ~Under(q, failedPath)

\* C3: when the submission of an accepted path failed and Print has returned,
\* the file is at exactly one path under failed/ and at none under upload/ or
\* printed/ (stated for the calls whose rename the system did not refuse).
C3_FailureEndsInFailed ==
  \A p \in Procs :
    (pc[p] = "back" /\ call[p].sub = "err" /\ ~call[p].fault) =>
      /\ Cardinality({q \in Places(call[p].id) : Under(q, failedPath)}) = 1
      /\ \A q \in Places(call[p].id) :
           ~Under(q, uploadPath) /\ ~Under(q, printedPath)

\* the part of Print between the start of the submission and the end of the
\* rename that follows it
InSubmission(p) == pc[p] \in {"submit", "wire", "resolve"}

\* C4: two Print calls of the same manager are never both inside the
\* submission (or the rename that follows it): at most one is in flight.
C4_SubmissionsSerialized ==
  \A p, r \in Procs : (p # r /\ InSubmission(p)) => ~InSubmission(r)

\* one call waits at the lock while another, for a different path, is on the wire
C4_Witness ==
  \E p, r \in Procs :
    /\ pc[p] = "wire"
    /\ pc[r] = "lock"
    /\ call[p].file # call[r].file

\* C5: notifications for a path that arrive while an attempt for that path is
\* in flight start no second attempt: one attempt runs per path at a time, it
\* enters the submission stage exactly once (for an accepted path), and every
\* notification that joined it observes the error that attempt returned.
C5_OneAttemptPerWave ==
  /\ \A n, m \in Notifiers :
       (n # m /\ nst[n] = "lead" /\ nst[m] = "lead") => key[n] # key[m]
  /\ \A n \in Notifiers :
       nst[n] = "wait" => (nst[joined[n]] = "lead" /\ key[joined[n]] = key[n])
  /\ \A n \in Notifiers :
       nst[n] = "done" =>
         /\ key[joined[n]] = key[n]
         /\ obs[n] = call[joined[n]].err
         /\ call[joined[n]].attempts = (IF Printable(key[n]) THEN 1 ELSE 0)
         /\ n # joined[n] => call[n].attempts = 0

\* two notifications for one accepted path were served by a single attempt
C5_Witness ==
  \E n, m \in Notifiers :
    /\ n # m
    /\ nst[n] = "done"
    /\ nst[m] = "done"
    /\ joined[m] = n
    /\ joined[n] = n
    /\ call[n].attempts = 1

\* C6: a Print call whose submission failed makes one rename, towards
\* failed/, and returns the error of the submission, also when the rename
\* did not succeed.
C6_SubmissionErrorSurvives ==
  [][\A p \in Procs :
       (pc[p] = "resolve" /\ call[p].sub = "err" /\ pc'[p] = "ret") =>
         /\ call'[p].err = call[p].err
         /\ call'[p].err # "nil"
         /\ call'[p].renames = call[p].renames + 1
         /\ Under(call'[p].dest, failedPath) \/ call'[p].dest = call[p].file]_vars

\* a failed submission whose move to failed/ failed as well
C6_Witness ==
  \E p \in Procs :
    /\ pc[p] = "ret"
    /\ call[p].sub = "err"
    /\ call[p].renames = 1
    /\ ~call[p].moved
    /\ call[p].err \in {"ErrIpp", "ErrOpen", "ErrPage"}

\* C7: every file ever dropped into upload/ is at exactly one path; no rename
\* makes an earlier file disappear.
C7_NoFileLost ==
  \A i \in 1..Len(origin) : Cardinality(Places(i)) = 1

\* the destination the specification describes: the upload segment replaced
\* by the outcome directory, the prefix glued to the base name
BaseNameDest(q, outcome, prefix) ==
  LET i == CHOOSE h \in 1..Len(q) :
             q[h] = <<"upload">> /\ \A g \in 1..(h - 1) : q[g] # <<"upload">>
  IN SubSeq(q, 1, i - 1) \o <<outcome>> \o SubSeq(q, i + 1, Len(q) - 1)
       \o << prefix \o Last(q) >>

\* the failed/<date>/ convention of the two oldest builds, which the
\* specification allows as a variant
DateDirDest(q, d) ==
  LET i == CHOOSE h \in 1..Len(q) :
             q[h] = <<"upload">> /\ \A g \in 1..(h - 1) : q[g] # <<"upload">>
  IN SubSeq(q, 1, i - 1) \o << <<"failed">>, <<DateStr(d)>> >> \o SubSeq(q, i + 1, Len(q))

\* C8: the destination of every rename is the path with upload replaced by
\* printed or failed and the base name prefixed by the date and, on success,
\* the job id (a build that files failures under failed/<date>/ is granted
\* that convention).
C8_DestinationPrefixesBaseName ==
  \A p \in Procs :
    (Returned(p) /\ call[p].renames > 0) =>
      call[p].dest =
        IF call[p].sub = "ok"
        THEN BaseNameDest(call[p].file, <<"printed">>,
                          <<DateStr(call[p].day), "_", IntStr(call[p].jId), "_">>)
        ELSE IF variant \in {"part_000", "part_002"}
        THEN DateDirDest(call[p].file, call[p].day)
        ELSE BaseNameDest(call[p].file, <<"failed">>, <<DateStr(call[p].day), "_">>)

\* ------------------------------------------------------------- liveness
DropLive ==
  /\ nextId <= MaxLiveFiles
  /\ DropFile

NextLive ==
  \/ DropLive
  \/ Tick
  \/ Cancel
  \/ WatchFiles

\* the poll loop keeps running and every call it makes returns
LiveSpec == Init /\ [][NextLive]_vars /\ WF_vars(WatchFiles)

\* the paths a dropped file can have
UploadPaths == {d \o <<nm>> : d \in DropDirs, nm \in FileNames}

\* Print is in its submission stage for path q
Attempting(q) == pc[Poller] = "submit" /\ call[Poller].file = q

C10_CancelStopsLoop ==
  /\ cancelled ~> (wpc = "stopped")
  /\ [][wpc = "stopped" => (wpc' = "stopped" /\ pc'[Poller] = "idle")]_vars
  /\ [][(pc[Poller] \in {"lock", "filter", "submit", "wire", "resolve", "ret"})
          => (wpc' = "walk" /\ pc'[Poller] # "idle" /\ call'[Poller].file = call[Poller].file)]_vars
  /\ (cancelled /\ pc[Poller] \in {"lock", "filter", "submit", "wire", "resolve", "ret"})
       ~> (pc[Poller] = "back")

\* the loop has stopped on cancellation, after it had attempted a file
C10_Witness ==
  /\ wpc = "stopped"
  /\ cancelled
  /\ submitted # {}

\* ------------------------------------------------------------ bootstrap
\* the daemon is started again on the same root after its loop has stopped:
\* main builds a new manager and calls WatchFiles with a fresh context; an
\* error of the constructor is fatal
Restart ==
  /\ wpc = "stopped"
  /\ boots < MaxBoots
  /\ boots' = boots + 1
  /\ dirs' = Bootstrap(dirs).dirs
  /\ IF Bootstrap(dirs).err = "nil"
     THEN /\ wpc' = "select"
          /\ cancelled' = FALSE
          /\ mu' = NoOwner
     ELSE UNCHANGED <<wpc, cancelled, mu>>
  /\ UNCHANGED <<variant, fs, today, nextId, origin, submitted, pc, call, todo,
                 nst, key, joined, obs, defaultJobAttrs, pass>>

NextBoot ==
  \/ DropLive
  \/ Tick
  \/ Cancel
  \/ WatchFiles
  \/ Restart

SpecBoot == Init /\ [][NextBoot]_vars

\* C11: a second run of the directory bootstrap on a root that has upload/,
\* printed/ and failed/ returns no error and changes neither the directories
\* nor the files.
C11_BootstrapIdempotent ==
  [][boots' # boots =>
       /\ {uploadPath, printedPath, failedPath} \subseteq dirs
       /\ wpc' = "select"
       /\ dirs' = dirs
       /\ fs' = fs]_vars

\* the daemon runs again after a restart on a root that holds files
C11_Witness ==
  /\ boots = 2
  /\ wpc = "select"
  /\ \E q \in DOMAIN fs : Under(q, uploadPath) \/ Under(q, failedPath)

\* C12: when the submission succeeded and the rename into printed/ failed,
\* Print returns the rename error and the file is where it was: at its path
\* in upload/ and nowhere under printed/ or failed/.
C12_FailedMoveLeavesFile ==
  \A p \in Procs :
    (Returned(p) /\ call[p].sub = "ok" /\ ~call[p].moved) =>
      /\ call[p].err = "ErrRename"
      /\ call[p].renames = 1
      /\ Under(call[p].file, uploadPath)
      /\ Places(call[p].id) = {call[p].file}

\* Print has returned after a successful submission whose rename was refused
C12_Witness ==
  /\ pc[Poller] = "back"
  /\ call[Poller].sub = "ok"
  /\ call[Poller].fault
  /\ ~call[Poller].moved

\* the pass has visited everything and PrintAll is about to return
PassOver == wpc = "walk" /\ pc[Poller] = "idle" /\ todo = <<>>

\* C13: in one pass Print is called at most once per path, only for regular
\* files that a listing of the pass returned and never for a directory, and
\* when the pass is over it has been called for every file the listings
\* returned, whatever the earlier calls of the pass returned.
C13_PassVisitsEveryFileOnce ==
  /\ \A j, k \in 1..Len(pass.visited) :
       j # k => pass.visited[j] # pass.visited[k]
  /\ \A q \in Range(pass.visited) :
       q \notin dirs /\ Under(q, uploadPath) /\ q \in pass.listed
  /\ PassOver => pass.listed \subseteq Range(pass.visited)

\* a pass is over in which the first of two calls returned an error
C13_Witness ==
  /\ PassOver
  /\ Len(pass.visited) = 2
  /\ Cardinality(pass.listed) = 2
  /\ 1 \in pass.errs

\* C14: the submission of an accepted path opens the file at that path, for
\* every accepted extension.
C14_SubmitsTheFileItself ==
  \A p \in Procs : call[p].attempts > 0 => call[p].opened = call[p].file

\* the page numbers printPdf asks the reader for: page 1 for the page size,
\* then the pages of the copy loop up to the first one that fails
PagesAsked(numPages) ==
  {1} \cup {k \in PagesLoop(numPages) :
              GetPageOk(numPages, 1)
              /\ \A j \in PagesLoop(numPages) : j < k => GetPageOk(numPages, j)}

\* C15: for a readable document of n >= 1 pages printPdf asks for no page
\* outside 1..n and reaches the protocol client exactly once.
C15_PdfCopyReachesClient ==
  \A p \in Procs :
    (variant = "main" /\ call[p].pages >= 1) =>
      /\ PagesAsked(call[p].pages) \subseteq 1..call[p].pages
      /\ call[p].proto = 1

\* ------------------------------------------------------- job attributes
\* the PRINTER_JOB_ATTRS mappings of the configurations checked
AttrSets ==
  { NoAttrs,
    [k \in {"copies"} |-> <<"2">>],
    [k \in {"job-name", "copies"} |-> IF k = "job-name" THEN <<"fixed">> ELSE <<"2">>] }

InitAttrs ==
  /\ InitCommon
  /\ defaultJobAttrs \in AttrSets
  /\ wpc = "select"

SpecAttrs == InitAttrs /\ [][NextLive]_vars

\* C16: in the build that merges a job name into the attributes, the
\* attributes the protocol client gets have job-name equal to the base name of
\* the path, and every other configured key with its configured value.
C16_JobNameIsBaseName ==
  \A p \in Procs :
    (variant = "part_001" /\ call[p].proto > 0) =>
      /\ "job-name" \in DOMAIN call[p].attrs
      /\ call[p].attrs["job-name"] = Last(call[p].file)
      /\ \A k \in DOMAIN defaultJobAttrs \ {"job-name"} :
           k \in DOMAIN call[p].attrs /\ call[p].attrs[k] = defaultJobAttrs[k]

\* C17: when the file of an accepted path cannot be opened, no protocol-client
\* call is made, Print returns the error, and the file is moved to failed/
\* unless that rename is impossible or refused.
C17_UnreadableGoesToFailed ==
  \A p \in Procs :
    (Returned(p) /\ call[p].err = "ErrOpen") =>
      /\ call[p].proto = 0
      /\ \/ call[p].moved /\ Under(call[p].dest, failedPath)
         \/ /\ call[p].renames = 1
            /\ \/ call[p].fault
               \/ ~RenamePossible(call[p].file, FailedDest(variant, call[p].file, today))

\* C18: a Print call passes the filter, then submits, then renames: it makes
\* at most one protocol-client call and at most one rename, no rename before
\* the submission is over, a move into printed/ only after a successful
\* submission and under the job id it returned, a move into failed/ only after
\* a failed one.
C18_AttemptOrder ==
  \A p \in Procs :
    /\ call[p].proto <= 1
    /\ call[p].renames <= 1
    /\ pc[p] \in {"lock", "filter"} => (call[p].attempts = 0 /\ call[p].proto = 0)
    /\ pc[p] \in {"lock", "filter", "submit", "wire"} =>
         (call[p].renames = 0 /\ ~call[p].moved /\ call[p].sub = "none")
    /\ call[p].sub = "ok" => (call[p].proto = 1 /\ call[p].jId \in JobIds)
    /\ call[p].moved =>
         \/ /\ call[p].sub = "ok"
            /\ Under(call[p].dest, printedPath)
            /\ SubSeq(call[p].dest[Len(printedPath) + 1], 1, 4)
                 = <<DateStr(call[p].day), "_", IntStr(call[p].jId), "_">>
         \/ /\ call[p].sub = "err"
            /\ Under(call[p].dest, failedPath)

\* a file has been moved into printed/ under the job id of its submission
C18_Witness ==
  /\ pc[Poller] = "back"
  /\ call[Poller].sub = "ok"
  /\ call[Poller].moved
  /\ call[Poller].jId = 2
  /\ Exists(call[Poller].dest)

\* C19: the mutex is held only by a call that is between its Lock and its
\* return; once a call has returned, with or without error, the mutex is
\* free for the next one.
C19_LockFreeAfterReturn ==
  /\ mu # NoOwner => pc[mu] \in {"filter", "submit", "wire", "resolve", "ret"}
  /\ (\A p \in Procs : pc[p] \in {"idle", "lock", "back"}) => mu = NoOwner

\* a call holds the lock after an earlier call of the pass returned an error
C19_Witness ==
  /\ pass.errs # {}
  /\ pc[Poller] = "filter"
  /\ mu = Poller

\* file i has been moved into printed/ or failed/
Resolved(i) ==
  \E q \in Places(i) : Under(q, printedPath) \/ Under(q, failedPath)

\* C20: a file that is in printed/ or failed/ is not renamed again and no
\* submission is started for it.
C20_ResolvedFilesLeftAlone ==
  [][\A i \in 1..Len(origin) :
       Resolved(i) =>
         /\ Places(i)' \subseteq Places(i)
         /\ \A p \in Procs :
              (pc[p] = "submit" /\ pc'[p] # "submit") => call'[p].id # i]_vars

\* a later file is being submitted while an earlier one rests in failed/
C20_Witness ==
  /\ Resolved(1)
  /\ pc[Poller] = "resolve"
  /\ call[Poller].id = 2
  /\ boots = 1

TypeOK ==
  /\ variant \in Variants
  /\ mu \in {NoOwner} \cup Procs
  /\ today \in 1..MaxDay
  /\ nextId \in 1..(MaxFiles + 1)

====
